---- MODULE Spec2Model ----
(***************************************************************************)
(* Model of kas/anchor.go: the KAS anchoring client of a klaytn node.      *)
(*                                                                         *)
(* A pointer is modelled as a sequence of length at most one: <<>> is nil, *)
(* <<v>> points to v.  An error value is a sequence too: <<>> is nil.      *)
(***************************************************************************)
EXTENDS Integers, Sequences, FiniteSets

\* ---------------------------------------------------------------- bounds
MaxHeight == 3      \* the chain holds blocks 0..MaxHeight at most
MaxTx     == 1      \* a block holds 0..MaxTx transactions
MaxPeriod == 2      \* kasConfig.AnchorPeriod ranges over 0..MaxPeriod

\* ------------------------------------------------------- program constants
codeOK == 0

errTest          == <<"test error">>            \* the error the transport returns
errNewRequest    == <<"http.NewRequest">>       \* url of kasConfig does not parse
ErrorCode(c)     == <<"error code", c>>         \* fmt.Errorf("error code %v", res.Code)
errNilDeref      == <<"nil pointer dereference">>   \* run-time panic
errDivide        == <<"integer divide by zero">>    \* run-time panic

VARIABLES
    kasConfig,   \* Anchor.kasConfig: [Anchor, AnchorPeriod, UrlOk]
    chain,       \* the canonical chain: chain[h+1] = number of transactions of block h
    last,        \* the call that returned last, with its arguments and results
    sent         \* the requests handed to client.Do

vars == <<kasConfig, chain, last, sent>>

\* ------------------------------------------------------------------ blocks
\* The header and hash of the block at height h with t transactions.
Block(h, t) ==
    [ Number      |-> h,
      TxLen       |-> t,
      Hash        |-> <<"block", h, t>>,
      TxHash      |-> <<"txroot", h, t>>,
      ParentHash  |-> <<"parent", h, t>>,
      ReceiptHash |-> <<"receipts", h, t>>,
      Root        |-> <<"state", h, t>> ]

BlockAt(h) == Block(h, chain[h + 1])

Heights == 0 .. (Len(chain) - 1)

\* BlockChain.GetBlockByNumber of a store that lacks the heights in `absent`.
GetBlockByNumber(number, absent) ==
    IF number \in Heights /\ number \notin absent THEN <<BlockAt(number)>> ELSE <<>>

\* The stores a call on `block` (nil or a block) may meet.  Only heights below the
\* block are looked up, and the loop of blockToAnchoringDataInternalType0 returns at
\* the first height the store lacks, so one absent height gives every behaviour.
Absences(block) ==
    {{}} \cup (IF block = <<>> THEN {} ELSE {{i} : i \in 0 .. (block[1].Number - 1)})

Lookup(number, block) == [number |-> number, found |-> block # <<>>]

\* ---------------------------------------------- blockToAnchoringDataInternalType0
\* The loop `for i := start; i < block.NumberU64(); i++` with its early return.
RECURSIVE WindowLoop(_, _, _, _, _)
WindowLoop(i, number, txCount, lookups, absent) ==
    IF i >= number
    THEN [found |-> TRUE, txCount |-> txCount, lookups |-> lookups]
    ELSE LET block == GetBlockByNumber(i, absent) IN
         IF block = <<>>
         THEN [found |-> FALSE, txCount |-> txCount,
               lookups |-> Append(lookups, Lookup(i, block))]
         ELSE WindowLoop(i + 1, number, txCount + block[1].TxLen,
                         Append(lookups, Lookup(i, block)), absent)

\* Mutants of WindowStart: the window one block too long, and the boundary moved.
WindowStartTooLong(number, period) ==
    IF number >= period THEN number - period ELSE 0

WindowStartStrict(number, period) ==
    IF number > period THEN number - period + 1 ELSE 0

WindowStart(number, period) ==
    IF number >= period THEN number - period + 1 ELSE 0

blockToAnchoringDataInternalType0(block, absent) ==
    LET start  == WindowStart(block.Number, kasConfig.AnchorPeriod)
        blkCnt == block.Number - start + 1
        loop   == WindowLoop(start, block.Number, block.TxLen, <<>>, absent)
    IN  [ lookups |-> loop.lookups,
          data    |-> IF ~loop.found THEN <<>>
                      ELSE << [ BlockHash     |-> block.Hash,
                                TxHash        |-> block.TxHash,
                                ParentHash    |-> block.ParentHash,
                                ReceiptHash   |-> block.ReceiptHash,
                                StateRootHash |-> block.Root,
                                BlockNumber   |-> block.Number,
                                BlockCount    |-> blkCnt,
                                TxCount       |-> loop.txCount ] >> ]

\* ------------------------------------------------------------ dataToPayload
Digit(d) == <<"0", "1", "2", "3", "4", "5", "6", "7", "8", "9">>[d + 1]

\* big.Int.String of a non-negative number: its decimal digits, "0" for zero.
RECURSIVE Digits(_)
Digits(n) == IF n = 0 THEN <<>> ELSE Append(Digits(n \div 10), Digit(n % 10))

\* Mutant of String: zero has no digits.
StringNoZero(n) == Digits(n)

String(n) == IF n = 0 THEN <<"0">> ELSE Digits(n)

\* dataToPayload dereferences anchorData: a nil anchorData panics.
dataToPayload(anchorData) ==
    IF anchorData = <<>>
    THEN [panic |-> TRUE, payload |-> <<>>]
    ELSE [panic |-> FALSE,
          payload |-> << [ Id |-> String(anchorData[1].BlockNumber),
                           AnchoringDataInternalType0 |-> anchorData[1] ] >>]

\* -------------------------------------------------------------- sendRequest
\* What the transport does when Do is called: an error, or a response with a body.
\*   "json"      a JSON object with code c
\*   "malformed" a body that is no JSON value
\*   "mismatch"  a JSON object that sets code c and then fails to unmarshal
\*               (a later member of the wrong type)
Codes == {codeOK, 42}

Stubs ==
    {[err |-> TRUE, body |-> "none", code |-> codeOK]}
    \cup {[err |-> FALSE, body |-> "malformed", code |-> codeOK]}
    \cup {[err |-> FALSE, body |-> b, code |-> c] : b \in {"json", "mismatch"}, c \in Codes}

\* Mutant of Decode: the code member is never stored.
DecodeDropsCode(stub) ==
    [v |-> [Code |-> 0], err |-> IF stub.body = "json" THEN <<>> ELSE <<"decode">>]

\* json.NewDecoder(resp.Body).Decode(&v) on v := respBody{}
Decode(stub) ==
    IF stub.body = "malformed"
    THEN [v |-> [Code |-> 0], err |-> <<"decode">>]
    ELSE IF stub.body = "mismatch"
    THEN [v |-> [Code |-> stub.code], err |-> <<"decode">>]
    ELSE [v |-> [Code |-> stub.code], err |-> <<>>]

Request(payload) ==
    [ Method |-> "POST", Payload |-> payload ]

\* Mutants of sendRequest: the error of Do is ignored; a failed Do is tried again;
\* the error of Decode is returned.
sendRequestIgnoresError(payload, stub) ==
    IF ~kasConfig.UrlOk
    THEN [res |-> <<>>, err |-> errNewRequest, requests |-> <<>>, done |-> <<>>]
    ELSE [res |-> <<IF stub.err THEN [Code |-> 0] ELSE Decode(stub).v>>, err |-> <<>>,
          requests |-> <<Request(payload)>>, done |-> <<stub>>]

sendRequestRetries(payload, stub) ==
    IF ~kasConfig.UrlOk
    THEN [res |-> <<>>, err |-> errNewRequest, requests |-> <<>>, done |-> <<>>]
    ELSE IF stub.err
    THEN [res |-> <<>>, err |-> errTest,
          requests |-> <<Request(payload), Request(payload)>>, done |-> <<stub>>]
    ELSE [res |-> <<Decode(stub).v>>, err |-> <<>>,
          requests |-> <<Request(payload)>>, done |-> <<stub>>]

sendRequestChecksDecode(payload, stub) ==
    IF ~kasConfig.UrlOk
    THEN [res |-> <<>>, err |-> errNewRequest, requests |-> <<>>, done |-> <<>>]
    ELSE IF stub.err
    THEN [res |-> <<>>, err |-> errTest, requests |-> <<Request(payload)>>, done |-> <<stub>>]
    ELSE IF Decode(stub).err # <<>>
    THEN [res |-> <<>>, err |-> Decode(stub).err,
          requests |-> <<Request(payload)>>, done |-> <<stub>>]
    ELSE [res |-> <<Decode(stub).v>>, err |-> <<>>,
          requests |-> <<Request(payload)>>, done |-> <<stub>>]

sendRequest(payload, stub) ==
    IF ~kasConfig.UrlOk
    THEN [res |-> <<>>, err |-> errNewRequest, requests |-> <<>>, done |-> <<>>]
    ELSE IF stub.err
    THEN [res |-> <<>>, err |-> errTest, requests |-> <<Request(payload)>>, done |-> <<stub>>]
    ELSE [res |-> <<Decode(stub).v>>, err |-> <<>>,
          requests |-> <<Request(payload)>>, done |-> <<stub>>]

\* -------------------------------------------------------------- AnchorBlock
AnchorBlock(block, absent, stub) ==
    LET a  == blockToAnchoringDataInternalType0(block, absent)
        p  == dataToPayload(a.data)
        s  == sendRequest(p.payload, stub)
        base == [ outcome |-> "panic", err |-> errNilDeref, lookups |-> a.lookups, data |-> a.data,
                  payload |-> <<>>, res |-> <<>>, requests |-> <<>>, done |-> <<>> ]
    IN  IF p.panic THEN base
        ELSE IF s.err # <<>>
        THEN [base EXCEPT !.outcome = "error", !.err = s.err, !.payload = p.payload,
                          !.requests = s.requests, !.done = s.done]
        ELSE IF s.res[1].Code # codeOK
        THEN [base EXCEPT !.outcome = "error", !.err = ErrorCode(s.res[1].Code),
                          !.payload = p.payload, !.res = s.res,
                          !.requests = s.requests, !.done = s.done]
        ELSE [base EXCEPT !.outcome = "ok", !.err = <<>>, !.payload = p.payload, !.res = s.res,
                          !.requests = s.requests, !.done = s.done]

\* ------------------------------------------------------ AnchorPeriodicBlock
Skipped ==
    [ outcome |-> "return", err |-> <<>>, lookups |-> <<>>, data |-> <<>>,
      payload |-> <<>>, res |-> <<>>, requests |-> <<>>, done |-> <<>>, invoked |-> FALSE ]

\* Mutant of AnchorPeriodicBlock: kasConfig.Anchor is not consulted.
AnchorPeriodicBlockAlways(block, absent, stub) ==
    IF block = <<>> THEN Skipped
    ELSE IF kasConfig.AnchorPeriod = 0 THEN [Skipped EXCEPT !.outcome = "panic", !.err = errDivide]
    ELSE IF block[1].Number % kasConfig.AnchorPeriod # 0 THEN Skipped
    ELSE LET r == AnchorBlock(block[1], absent, stub) IN
         [ outcome |-> IF r.outcome = "panic" THEN "panic" ELSE "return",
           err |-> r.err, lookups |-> r.lookups, data |-> r.data, payload |-> r.payload,
           res |-> r.res, requests |-> r.requests, done |-> r.done, invoked |-> TRUE ]

AnchorPeriodicBlock(block, absent, stub) ==
    IF ~kasConfig.Anchor THEN Skipped
    ELSE IF block = <<>> THEN Skipped
    ELSE IF kasConfig.AnchorPeriod = 0 THEN [Skipped EXCEPT !.outcome = "panic", !.err = errDivide]
    ELSE IF block[1].Number % kasConfig.AnchorPeriod # 0 THEN Skipped
    ELSE LET r == AnchorBlock(block[1], absent, stub) IN
         [ outcome |-> IF r.outcome = "panic" THEN "panic" ELSE "return",
           err |-> r.err, lookups |-> r.lookups, data |-> r.data, payload |-> r.payload,
           res |-> r.res, requests |-> r.requests, done |-> r.done, invoked |-> TRUE ]

\* ------------------------------------------------------------------- state
Idle ==
    [ op |-> "none", block |-> <<>>, outcome |-> "none", err |-> <<>>, lookups |-> <<>>,
      data |-> <<>>, payload |-> <<>>, res |-> <<>>, done |-> <<>>, invoked |-> FALSE ]

Init ==
    /\ kasConfig \in [Anchor : BOOLEAN, AnchorPeriod : 0 .. MaxPeriod, UrlOk : BOOLEAN]
    /\ chain = <<>>
    /\ last = Idle
    /\ sent = <<>>

\* The node finalizes a block; nothing is anchored.
ProduceBlock ==
    /\ last = Idle
    /\ Len(chain) <= MaxHeight
    /\ \E t \in 0 .. MaxTx : chain' = Append(chain, t)
    /\ UNCHANGED <<kasConfig, last, sent>>

Blocks == {<<>>} \cup {<<BlockAt(h)>> : h \in Heights}

CallAnchorPeriodicBlock ==
    /\ last = Idle
    /\ \E block \in Blocks, stub \in Stubs :
      \E absent \in Absences(block) :
        LET r == AnchorPeriodicBlock(block, absent, stub) IN
        /\ last' = [ op |-> "AnchorPeriodicBlock", block |-> block, outcome |-> r.outcome,
                     err |-> r.err, lookups |-> r.lookups, data |-> r.data,
                     payload |-> r.payload, res |-> r.res, done |-> r.done,
                     invoked |-> r.invoked ]
        /\ sent' = r.requests
        /\ UNCHANGED <<kasConfig, chain>>

CallAnchorBlock ==
    /\ last = Idle
    /\ \E h \in Heights, stub \in Stubs :
      \E absent \in Absences(<<BlockAt(h)>>) :
        LET r == AnchorBlock(BlockAt(h), absent, stub) IN
        /\ last' = [ op |-> "AnchorBlock", block |-> <<BlockAt(h)>>, outcome |-> r.outcome,
                     err |-> r.err, lookups |-> r.lookups, data |-> r.data,
                     payload |-> r.payload, res |-> r.res, done |-> r.done,
                     invoked |-> TRUE ]
        /\ sent' = r.requests
        /\ UNCHANGED <<kasConfig, chain>>

\* The caller drops the results of the call it observed (a fresh mock per call).
Forget ==
    /\ last # Idle
    /\ last' = Idle
    /\ sent' = <<>>
    /\ UNCHANGED <<kasConfig, chain>>

\* blockToAnchoringDataInternalType0 called on a block of the chain, as the test does.
CallBlockToAnchoringData ==
    /\ last = Idle
    /\ \E h \in Heights :
      \E absent \in Absences(<<BlockAt(h)>>) :
        LET r == blockToAnchoringDataInternalType0(BlockAt(h), absent) IN
        /\ last' = [Idle EXCEPT !.op = "blockToAnchoringDataInternalType0",
                                !.block = <<BlockAt(h)>>, !.outcome = "return",
                                !.lookups = r.lookups, !.data = r.data]
        /\ UNCHANGED <<kasConfig, chain, sent>>

\* testAnchorData of the tests, at several block numbers.
BlockNumbers == {0, 5, 10, 307}

AnchorData(n) ==
    [ BlockHash |-> <<"hash", 0>>, TxHash |-> <<"hash", 1>>, ParentHash |-> <<"hash", 2>>,
      ReceiptHash |-> <<"hash", 3>>, StateRootHash |-> <<"hash", 4>>,
      BlockNumber |-> n, BlockCount |-> 6, TxCount |-> 7 ]

CallDataToPayload ==
    /\ last = Idle
    /\ \E anchorData \in {<<>>} \cup {<<AnchorData(n)>> : n \in BlockNumbers} :
        LET r == dataToPayload(anchorData) IN
        /\ last' = [Idle EXCEPT !.op = "dataToPayload", !.data = anchorData,
                                !.outcome = IF r.panic THEN "panic" ELSE "return",
                                !.err = IF r.panic THEN errNilDeref ELSE <<>>,
                                !.payload = r.payload]
        /\ UNCHANGED <<kasConfig, chain, sent>>

CallSendRequest ==
    /\ last = Idle
    /\ \E stub \in Stubs :
        LET pl == dataToPayload(<<AnchorData(5)>>).payload
            r  == sendRequest(pl, stub) IN
        /\ last' = [Idle EXCEPT !.op = "sendRequest", !.outcome = "return", !.payload = pl,
                                !.res = r.res, !.err = r.err, !.done = r.done]
        /\ sent' = r.requests
        /\ UNCHANGED <<kasConfig, chain>>

Next ==
    \/ ProduceBlock
    \/ Forget
    \/ CallAnchorPeriodicBlock
    \/ CallAnchorBlock
    \/ CallBlockToAnchoringData
    \/ CallDataToPayload
    \/ CallSendRequest

Spec == Init /\ [][Next]_vars

\* ---------------------------------------------------------------- the node
\* The node finalizes block Len(chain) and hands it to AnchorPeriodicBlock, once per
\* block; its transport is long-lived, so `sent` accumulates.  A panic ends the run.
NodeFinalizeBlock ==
    /\ last.outcome # "panic"
    /\ Len(chain) <= MaxHeight
    /\ \E t \in 0 .. MaxTx, stub \in Stubs :
      \E absent \in Absences(<<Block(Len(chain), t)>>) :
        LET block == Block(Len(chain), t)
            r     == AnchorPeriodicBlock(<<block>>, absent, stub) IN
        /\ chain' = Append(chain, t)
        /\ last' = [ op |-> "AnchorPeriodicBlock", block |-> <<block>>, outcome |-> r.outcome,
                     err |-> r.err, lookups |-> r.lookups, data |-> r.data,
                     payload |-> r.payload, res |-> r.res, done |-> r.done,
                     invoked |-> r.invoked ]
        /\ sent' = sent \o r.requests
        /\ UNCHANGED <<kasConfig>>

NextNode == NodeFinalizeBlock

SpecNode == Init /\ [][NextNode]_vars

\* ================================================================ properties
Period == kasConfig.AnchorPeriod

RECURSIVE SumTx(_, _)
\* The transactions of the blocks at heights lo..hi of the chain.
SumTx(lo, hi) == IF lo > hi THEN 0 ELSE chain[hi + 1] + SumTx(lo, hi - 1)

Max(a, b) == IF a >= b THEN a ELSE b

\* The incremental sliding-window counter of the test: per-slot counts keyed by
\* height mod period, fed the heights blkNum..h in order.
RECURSIVE Slide(_, _, _, _)
Slide(blkNum, h, pastCnt, txCnt) ==
    IF blkNum > h THEN txCnt
    ELSE LET slot  == blkNum % Period
             txNum == chain[blkNum + 1]
         IN  Slide(blkNum + 1, h, [pastCnt EXCEPT ![slot] = txNum],
                   txCnt - pastCnt[slot] + txNum)

SlidingCount(h) == Slide(0, h, [slot \in 0 .. (Period - 1) |-> 0], 0)

LastHeight == last.block[1].Number

\* The store answered nil for a height of the window below the target block.
WindowMissing ==
    \E k \in 1 .. Len(last.lookups) : ~last.lookups[k].found

\* C1: with period >= 1 and every block 0..h retrievable, the data built for the
\* block at h has TxCount equal to the sum of the transaction counts of the heights
\* max(0, h-period+1)..h and BlockCount equal to the number of those heights, and
\* TxCount equals what the incremental sliding-window counter of the test gives.
WindowAggregationCorrect ==
    ( /\ last.op = "blockToAnchoringDataInternalType0"
      /\ Period >= 1
      /\ ~WindowMissing )
    => /\ last.data # <<>>
       /\ LET h     == LastHeight
              start == Max(0, h - Period + 1)
          IN  /\ last.lookups = [k \in 1 .. (h - start) |->
                                    [number |-> start + k - 1, found |-> TRUE]]
              /\ last.data[1].TxCount = SumTx(start, h)
              /\ last.data[1].BlockCount = h - start + 1
              /\ last.data[1].TxCount = SlidingCount(h)
              /\ last.data[1].BlockNumber = h

\* C1 witness: a full window above the boundary region (h > period >= 2) with
\* transactions in it, and a lookup made.
WindowAggregationWitness ==
    /\ last.op = "blockToAnchoringDataInternalType0"
    /\ Period = 2
    /\ LastHeight = 3
    /\ last.data # <<>>
    /\ last.data[1].TxCount = 2
    /\ chain[2] = 1
    /\ last.lookups = <<[number |-> 2, found |-> TRUE]>>

\* C2: AnchorPeriodicBlock invokes AnchorBlock exactly when config.Anchor holds, the
\* block is not nil and its height is a multiple of AnchorPeriod (period >= 1); in
\* every other case it returns with no block lookup and no network call.
GateDecides ==
    (last.op = "AnchorPeriodicBlock" /\ Period >= 1)
    => LET eligible == /\ kasConfig.Anchor
                       /\ last.block # <<>>
                       /\ last.block[1].Number % Period = 0
       IN  /\ last.invoked <=> eligible
           /\ ~eligible => /\ last.outcome = "return"
                           /\ last.lookups = <<>>
                           /\ sent = <<>>
                           /\ last.payload = <<>>

\* C2 witness: an eligible block above height 0 was anchored, with a lookup and a
\* network call.
GateDecidesWitness ==
    /\ last.op = "AnchorPeriodicBlock"
    /\ Period = 2
    /\ last.invoked
    /\ last.block[1].Number = 2
    /\ last.lookups = <<[number |-> 1, found |-> TRUE]>>
    /\ Len(sent) = 1

\* C3 (as claimed): when a block of the window below the target is missing,
\* AnchorBlock returns an error, builds no payload and makes no network call.
MissingWindowBlockIsAnError ==
    (last.op = "AnchorBlock" /\ Period >= 1 /\ WindowMissing)
    => /\ last.outcome = "error"
       /\ last.payload = <<>>
       /\ sent = <<>>

\* C4: when the transport returns a response, AnchorBlock succeeds exactly when the
\* decoded code is 0, and for a code c # 0 it fails with an error that carries c; the
\* decoded code of a JSON body is the code in the body.
ResponseCodeDecides ==
    ( /\ last.op = "AnchorBlock"
      /\ last.done # <<>>
      /\ ~last.done[1].err )
    => /\ last.res # <<>>
       /\ last.done[1].body = "json" => last.res[1].Code = last.done[1].code
       /\ last.outcome = "ok" <=> last.res[1].Code = codeOK
       /\ last.res[1].Code # codeOK
            => last.outcome = "error" /\ last.err = ErrorCode(last.res[1].Code)
       /\ last.outcome = "ok" => last.err = <<>>

\* C4 witness: the service answered code 42 and AnchorBlock failed with "error code 42".
ResponseCodeWitness ==
    /\ last.op = "AnchorBlock"
    /\ last.done # <<>>
    /\ last.done[1] = [err |-> FALSE, body |-> "json", code |-> 42]
    /\ last.outcome = "error"
    /\ last.err = <<"error code", 42>>

\* C5: when client.Do returns an error, sendRequest returns that error and a nil
\* response, AnchorBlock fails with that error (not with an error made from a response
\* code), and exactly the one call to Do was made.
TransportErrorPropagates ==
    ( /\ last.op \in {"sendRequest", "AnchorBlock"}
      /\ last.done # <<>>
      /\ last.done[1].err )
    => /\ last.res = <<>>
       /\ last.err = errTest
       /\ Len(sent) = 1
       /\ last.op = "AnchorBlock" => last.outcome = "error"

\* C5 witness: AnchorBlock on a block with a window of two, the transport failing.
TransportErrorWitness ==
    /\ last.op = "AnchorBlock"
    /\ last.done # <<>>
    /\ last.done[1].err
    /\ last.outcome = "error"
    /\ last.lookups # <<>>

\* C6 (as claimed): with period >= 1, AnchorPeriodicBlock returns normally whatever
\* the block, the block store and the transport do.
PeriodicNeverFails ==
    (last.op = "AnchorPeriodicBlock" /\ Period >= 1) => last.outcome = "return"

DigitValue(c) ==
    CASE c = "0" -> 0 [] c = "1" -> 1 [] c = "2" -> 2 [] c = "3" -> 3 [] c = "4" -> 4
      [] c = "5" -> 5 [] c = "6" -> 6 [] c = "7" -> 7 [] c = "8" -> 8 [] c = "9" -> 9

RECURSIVE ParseDecimal(_)
ParseDecimal(str) ==
    IF str = <<>> THEN 0
    ELSE 10 * ParseDecimal(SubSeq(str, 1, Len(str) - 1)) + DigitValue(str[Len(str)])

\* A decimal numeral: at least one digit, no leading zero except for "0" itself.
IsDecimal(str) ==
    /\ Len(str) >= 1
    /\ \A i \in 1 .. Len(str) : str[i] \in {Digit(d) : d \in 0 .. 9}
    /\ Len(str) > 1 => str[1] # "0"

\* C7: for every (non-nil) anchoring data, the payload built from it has as Id the
\* decimal numeral of the data's BlockNumber, also for 0, and embeds the data unchanged.
PayloadIdentity ==
    ( /\ last.op \in {"dataToPayload", "AnchorBlock", "AnchorPeriodicBlock"}
      /\ last.data # <<>> )
    => /\ last.outcome # "panic"
       /\ last.payload # <<>>
       /\ IsDecimal(last.payload[1].Id)
       /\ ParseDecimal(last.payload[1].Id) = last.data[1].BlockNumber
       /\ last.payload[1].AnchoringDataInternalType0 = last.data[1]

\* C7 witness: the payload of block number 0 has Id "0".
PayloadIdentityWitness ==
    /\ last.op = "dataToPayload"
    /\ last.data # <<>>
    /\ last.data[1].BlockNumber = 0
    /\ last.payload # <<>>
    /\ last.payload[1].Id = <<"0">>

\* The request of this invocation was built and handed to the transport.
WindowRetrieved == last.op = "AnchorBlock" /\ ~WindowMissing

\* C8 (as claimed): an AnchorBlock on a block whose window is retrievable makes
\* exactly one network call.
ExactlyOneCall ==
    (WindowRetrieved /\ Period >= 1) => Len(sent) = 1

\* C8 (amended): an invocation makes at most one network call, whatever its outcome;
\* on a retrievable window it makes exactly one when the request could be built from
\* the configured url, and none when it could not.
AtMostOneCall ==
    /\ last.op \in {"AnchorBlock", "AnchorPeriodicBlock", "sendRequest"} => Len(sent) <= 1
    /\ WindowRetrieved =>
          /\ kasConfig.UrlOk => Len(sent) = 1 /\ sent[1].Payload = last.payload
          /\ ~kasConfig.UrlOk => sent = <<>> /\ last.outcome = "error"
                                             /\ last.err = errNewRequest

\* C8 witness: a transport error on a retrievable window of two, one call made.
AtMostOneCallWitness ==
    /\ WindowRetrieved
    /\ last.lookups # <<>>
    /\ last.err = errTest
    /\ Len(sent) = 1

\* The body the transport returned did not decode.
DecodeFailed ==
    /\ last.op \in {"sendRequest", "AnchorBlock"}
    /\ last.done # <<>>
    /\ ~last.done[1].err
    /\ Decode(last.done[1]).err # <<>>

\* C9 (as claimed): a body that fails to decode gives a zero-valued response and no
\* error, and AnchorBlock reports success.
DecodeFailureIsZero ==
    (DecodeFailed /\ Period >= 1)
    => /\ last.res = <<[Code |-> 0]>>
       /\ last.op = "sendRequest" => last.err = <<>>
       /\ last.op = "AnchorBlock" => last.outcome = "ok"

\* C9 (amended): a body that fails to decode gives a response and no error from
\* sendRequest, holding what was decoded before the failure: the zero value (code 0)
\* for a body that is no JSON value, and AnchorBlock then reports success; AnchorBlock
\* reports success exactly when the code that was left is 0.
DecodeFailureIsDropped ==
    DecodeFailed
    => /\ last.res # <<>>
       /\ last.op = "sendRequest" => last.err = <<>>
       /\ last.done[1].body = "malformed" =>
             /\ last.res = <<[Code |-> 0]>>
             /\ last.op = "AnchorBlock" => last.outcome = "ok" /\ last.err = <<>>
       /\ last.op = "AnchorBlock" =>
             /\ last.outcome = "ok" <=> last.res[1].Code = codeOK
             /\ last.outcome # "ok" => last.err = ErrorCode(last.res[1].Code)

\* C9 witness: AnchorBlock reported success on a body that is no JSON value.
DecodeFailureWitness ==
    /\ last.op = "AnchorBlock"
    /\ last.done # <<>>
    /\ last.done[1].body = "malformed"
    /\ last.outcome = "ok"
    /\ last.res = <<[Code |-> 0]>>

\* ------------------------------------------------------------ the node's run
Sent(k) == sent[k].Payload[1].AnchoringDataInternalType0

Window(k) == (Sent(k).BlockNumber - Sent(k).BlockCount + 1) .. Sent(k).BlockNumber

RECURSIVE SumSent(_)
SumSent(k) == IF k = 0 THEN 0 ELSE Sent(k).TxCount + SumSent(k - 1)

\* C10: in a run of the node that anchors (enabled, period >= 1, the requests can be
\* built, and no call failed on a missing block), the payloads sent are those of the
\* heights 0, period, 2*period, ... up to the last one reached; their windows are
\* pairwise disjoint and cover every height up to the last gated one; BlockCount is 1
\* at height 0 and period above; the TxCounts add up to the transactions of those heights.
NodeWindowsPartition ==
    ( /\ kasConfig.Anchor
      /\ Period >= 1
      /\ kasConfig.UrlOk
      /\ last.op = "AnchorPeriodicBlock"
      /\ last.outcome # "panic" )
    => LET n         == Len(sent)
           lastGated == (Len(chain) - 1) - ((Len(chain) - 1) % Period)
       IN  /\ n = (lastGated \div Period) + 1
           /\ \A k \in 1 .. n :
                 /\ Sent(k).BlockNumber = (k - 1) * Period
                 /\ Sent(k).BlockCount = IF k = 1 THEN 1 ELSE Period
                 /\ sent[k].Payload[1].Id = String((k - 1) * Period)
           /\ \A j, k \in 1 .. n : j # k => Window(j) \cap Window(k) = {}
           /\ UNION {Window(k) : k \in 1 .. n} = 0 .. lastGated
           /\ SumSent(n) = SumTx(0, lastGated)

\* C10 witness: period 2, blocks 0..3 fed, heights 0 and 2 anchored, with
\* transactions in the second window.
NodeWindowsWitness ==
    /\ kasConfig.Anchor
    /\ kasConfig.UrlOk
    /\ Period = 2
    /\ Len(chain) = 4
    /\ last.outcome = "return"
    /\ Len(sent) = 2
    /\ Sent(2).TxCount = 2
====
